---- MODULE Spec2Model ----
(***************************************************************************)
(* A model of assessment.py: the field parsers (parse_bp, parse_temp,      *)
(* parse_age), the sub-scores (bp_score, temp_score, age_score), the       *)
(* aggregation analyze_patients and the paginated fetch fetch_patients.    *)
(*                                                                         *)
(* Python values are tagged records.  A string is a sequence of            *)
(* one-character strings.  A float is the exact decimal n/d (d a power of  *)
(* ten) or one of nan, inf, ninf; at the lengths modelled here (far below  *)
(* 15 significant digits) comparing the decimals is comparing the doubles. *)
(***************************************************************************)
EXTENDS Integers, Sequences, FiniteSets, TLC

VARIABLES
    pc,        \* which step of the run the program is at
    raw,       \* parsers: the raw field value handed to a parser
    parser,    \* parsers: which parser was applied
    parsed,    \* parsers: the outcome(s) of the parser, a sequence
    bpin,      \* bp_score: its arguments <<systolic, diastolic>>
    bpout,     \* bp_score: its return value
    patients,  \* analyze_patients: its argument; fetch_patients: its list
    result,    \* analyze_patients: its outcome
    server,    \* fetch_patients: the pages the server holds
    page,      \* fetch_patients: the page counter
    resp,      \* fetch_patients: the response being handled
    streak,    \* server: transient answers given in succession
    nreq       \* history: requests sent so far

vars == <<pc, raw, parser, parsed, bpin, bpout, patients, result,
          server, page, resp, streak, nreq>>

(***************************************************************************)
(* Bounds of the model.                                                    *)
(***************************************************************************)
MaxStrLen == 4      \* longest generated string handed to a parser
MaxRecords == 2     \* longest generated record sequence
MaxPages == 2       \* most pages a server holds
MaxPageLen == 2     \* most records on a page
MaxTransient == 2   \* most transient answers in succession

(***************************************************************************)
(* Python values.                                                          *)
(***************************************************************************)
Val(k, n, d) == [k |-> k, n |-> n, d |-> d]
None == Val("none", 0, 1)
Raised == Val("raise", 0, 1)
IntV(n) == Val("int", n, 1)
BigIntV == Val("bigint", 0, 1)       \* an int beyond the largest double
NaNV == Val("nan", 0, 1)
InfV == Val("inf", 0, 1)
NegInfV == Val("ninf", 0, 1)

RECURSIVE Normal(_, _)
Normal(n, d) == IF d > 1 /\ n % 10 = 0 THEN Normal(n \div 10, d \div 10)
                ELSE Val("float", n, d)
FloatV(n, d) == Normal(n, d)

Raw(t, n, d, s) == [t |-> t, n |-> n, d |-> d, s |-> s]
RawNull == Raw("null", 0, 1, <<>>)
RawBool(b) == Raw("bool", IF b THEN 1 ELSE 0, 1, <<>>)
RawInt(n) == Raw("int", n, 1, <<>>)
RawBigInt == Raw("bigint", 0, 1, <<>>)
RawFloat(n, d) == Raw("float", n, d, <<>>)
RawNaN == Raw("nan", 0, 1, <<>>)
RawInf == Raw("inf", 0, 1, <<>>)
RawNegInf == Raw("ninf", 0, 1, <<>>)
RawStr(s) == Raw("str", 0, 1, s)
RawOther == Raw("other", 0, 1, <<>>)   \* a list, a mapping, ...

IsNumber(r) == r.t \in {"bool", "int", "bigint", "float", "nan", "inf", "ninf"}

Digits == {"0", "1", "2", "3", "4", "5", "6", "7", "8", "9"}
IsDigit(c) == c \in Digits
DigitVal(c) == CASE c = "0" -> 0 [] c = "1" -> 1 [] c = "2" -> 2 [] c = "3" -> 3
                 [] c = "4" -> 4 [] c = "5" -> 5 [] c = "6" -> 6 [] c = "7" -> 7
                 [] c = "8" -> 8 [] c = "9" -> 9

RECURSIVE ToInt(_)
ToInt(s) == IF s = <<>> THEN 0
            ELSE 10 * ToInt(SubSeq(s, 1, Len(s) - 1)) + DigitVal(s[Len(s)])

RECURSIVE Pow10(_)
Pow10(k) == IF k = 0 THEN 1 ELSE 10 * Pow10(k - 1)

\* The last index of the run of digits that starts at i, at most max long
\* (max = 0: unbounded).
RECURSIVE RunEnd(_, _, _)
RunEnd(s, i, max) ==
    IF i < Len(s) /\ IsDigit(s[i + 1]) /\ max # 1
    THEN RunEnd(s, i + 1, IF max = 0 THEN 0 ELSE max - 1)
    ELSE i

\* re.findall(r"\d{1,3}", s) from index i on, as integers.
RECURSIVE FindAll(_, _)
FindAll(s, i) ==
    IF i > Len(s) THEN <<>>
    ELSE IF IsDigit(s[i])
         THEN LET j == RunEnd(s, i, 3)
              IN  <<ToInt(SubSeq(s, i, j))>> \o FindAll(s, j + 1)
         ELSE FindAll(s, i + 1)

extract_numbers(r) ==
    IF r.t # "str" \/ r.s = <<>> THEN <<>> ELSE FindAll(r.s, 1)

parse_bp(bp_raw) ==
    IF bp_raw.t = "null" THEN <<None, None>>
    ELSE IF IsNumber(bp_raw) THEN <<None, None>>
    ELSE IF bp_raw.t # "str" THEN <<None, None>>
    ELSE LET nums == extract_numbers(bp_raw)
         IN  IF Len(nums) >= 2 THEN <<IntV(nums[1]), IntV(nums[2])>>
             ELSE <<None, None>>

\* float(x) of a number: an int beyond the largest double raises OverflowError.
ToFloat(r) ==
    CASE r.t \in {"bool", "int"} -> FloatV(r.n, 1)
      [] r.t = "bigint" -> Raised
      [] r.t = "float" -> FloatV(r.n, r.d)
      [] r.t = "nan" -> NaNV
      [] r.t = "inf" -> InfV
      [] r.t = "ninf" -> NegInfV

\* int(x) of a number: truncation towards zero; nan raises ValueError,
\* an infinity raises OverflowError.
ToInteger(r) ==
    CASE r.t \in {"bool", "int"} -> IntV(r.n)
      [] r.t = "bigint" -> BigIntV
      [] r.t = "float" -> IntV(IF r.n >= 0 THEN r.n \div r.d
                                ELSE -((-r.n) \div r.d))
      [] r.t \in {"nan", "inf", "ninf"} -> Raised

\* The first index at which -?\d+\.?\d* matches, 0 when there is none.
RECURSIVE TempStart(_, _)
TempStart(s, i) ==
    IF i > Len(s) THEN 0
    ELSE IF IsDigit(s[i]) THEN i
    ELSE IF s[i] = "-" /\ i < Len(s) /\ IsDigit(s[i + 1]) THEN i
    ELSE TempStart(s, i + 1)

\* float(m.group(0)) for the match of -?\d+\.?\d* at index i.
TempMatch(s, i) ==
    LET neg == s[i] = "-"
        a == IF neg THEN i + 1 ELSE i
        b == RunEnd(s, a, 0)
        dot == b < Len(s) /\ s[b + 1] = "."
        frac == dot /\ b + 1 < Len(s) /\ IsDigit(s[b + 2])
        c == IF frac THEN RunEnd(s, b + 2, 0) ELSE b
        whole == ToInt(SubSeq(s, a, b))
        k == IF frac THEN c - (b + 1) ELSE 0
        mag == IF frac THEN whole * Pow10(k) + ToInt(SubSeq(s, b + 2, c))
               ELSE whole
    IN  FloatV(IF neg THEN -mag ELSE mag, Pow10(k))

parse_temp(temp_raw) ==
    IF temp_raw.t = "null" THEN None
    ELSE IF IsNumber(temp_raw) THEN ToFloat(temp_raw)
    ELSE IF temp_raw.t # "str" THEN None
    ELSE LET i == TempStart(temp_raw.s, 1)
         IN  IF i = 0 THEN None ELSE TempMatch(temp_raw.s, i)

\* The first index of a digit, 0 when there is none.
RECURSIVE AgeStart(_, _)
AgeStart(s, i) ==
    IF i > Len(s) THEN 0
    ELSE IF IsDigit(s[i]) THEN i
    ELSE AgeStart(s, i + 1)

parse_age(age_raw) ==
    IF age_raw.t = "null" THEN None
    ELSE IF IsNumber(age_raw) THEN ToInteger(age_raw)
    ELSE IF age_raw.t # "str" THEN None
    ELSE LET i == AgeStart(age_raw.s, 1)
         IN  IF i = 0 THEN None
             ELSE IntV(ToInt(SubSeq(age_raw.s, i, RunEnd(age_raw.s, i, 3))))

(***************************************************************************)
(* Sub-scores.                                                             *)
(***************************************************************************)
RECURSIVE MaxOf(_)
MaxOf(scores) ==
    IF Len(scores) = 1 THEN scores[1]
    ELSE LET m == MaxOf(Tail(scores))
         IN  IF scores[1] >= m THEN scores[1] ELSE m

\* bp_score with the Elevated band closed one short: systolic < 129.
bp_score_elevated_short(systolic, diastolic) ==
    IF systolic = None \/ diastolic = None THEN 0
    ELSE LET s == systolic.n
             d == diastolic.n
             scores ==
                 (IF s < 120 /\ d < 80 THEN <<1>> ELSE <<>>)
                 \o (IF 120 <= s /\ s < 129 /\ d < 80 THEN <<2>> ELSE <<>>)
                 \o (IF (130 <= s /\ s <= 139) \/ (80 <= d /\ d <= 89)
                     THEN <<3>> ELSE <<>>)
                 \o (IF s >= 140 \/ d >= 90 THEN <<4>> ELSE <<>>)
         IN  IF scores # <<>> THEN MaxOf(scores) ELSE 0

bp_score(systolic, diastolic) ==
    IF systolic = None \/ diastolic = None THEN 0
    ELSE LET s == systolic.n
             d == diastolic.n
             scores ==
                 (IF s < 120 /\ d < 80 THEN <<1>> ELSE <<>>)
                 \o (IF 120 <= s /\ s <= 129 /\ d < 80 THEN <<2>> ELSE <<>>)
                 \o (IF (130 <= s /\ s <= 139) \/ (80 <= d /\ d <= 89)
                     THEN <<3>> ELSE <<>>)
                 \o (IF s >= 140 \/ d >= 90 THEN <<4>> ELSE <<>>)
         IN  IF scores # <<>> THEN MaxOf(scores) ELSE 0

\* x <= n/d and x >= n/d on floats; every comparison with nan is false.
FLe(x, n, d) ==
    CASE x.k = "float" -> x.n * d <= n * x.d
      [] x.k = "ninf" -> TRUE
      [] x.k \in {"nan", "inf"} -> FALSE
FGe(x, n, d) ==
    CASE x.k = "float" -> x.n * d >= n * x.d
      [] x.k = "inf" -> TRUE
      [] x.k \in {"nan", "ninf"} -> FALSE

temp_score(temp_f) ==
    IF temp_f = None THEN 0
    ELSE IF FLe(temp_f, 995, 10) THEN 0
    ELSE IF FGe(temp_f, 996, 10) /\ FLe(temp_f, 1009, 10) THEN 1
    ELSE IF FGe(temp_f, 101, 1) THEN 2
    ELSE 0

age_score(age) ==
    IF age = None THEN 0
    ELSE IF age.k = "bigint" \/ age.n > 65 THEN 2
    ELSE 1

(***************************************************************************)
(* analyze_patients.                                                       *)
(***************************************************************************)
Ord(c) == CASE c = "A" -> 65 [] c = "B" -> 66 [] c = "C" -> 67
            [] IsDigit(c) -> 48 + DigitVal(c)

\* Python's < on strings: lexicographic on code points, a proper prefix first.
RECURSIVE StrLess(_, _)
StrLess(a, b) ==
    IF b = <<>> THEN FALSE
    ELSE IF a = <<>> THEN TRUE
    ELSE IF a[1] # b[1] THEN Ord(a[1]) < Ord(b[1])
    ELSE StrLess(Tail(a), Tail(b))

\* bool(x)
Truthy(r) ==
    CASE r.t \in {"null"} -> FALSE
      [] r.t = "str" -> r.s # <<>>
      [] r.t \in {"bool", "int", "float"} -> r.n # 0
      [] OTHER -> TRUE

\* p.get("patient_id") or p.get("id")
Pid(p) == IF Truthy(p.patient_id) THEN p.patient_id ELSE p.id

\* The skip with "if pid is None": an empty identifier gets through.
Skipped_none_only(p) == Pid(p).t = "null"

\* if not pid: continue
Skipped(p) == ~Truthy(Pid(p))

\* The flag without the age: bp_invalid or temp_invalid.
IsInvalid_no_age(systolic, diastolic, temp, age) ==
    (systolic = None \/ diastolic = None) \/ temp = None

IsInvalid(systolic, diastolic, temp, age) ==
    (systolic = None \/ diastolic = None) \/ temp = None \/ age = None

\* The threshold taken strictly: total > 4.
IsHighRisk_strict(total) == total > 4

IsHighRisk(total) == total >= 4

\* The threshold taken strictly: temp > 99.6.
IsFever_strict(temp) == temp # None /\ ~FLe(temp, 996, 10)

IsFever(temp) == temp # None /\ FGe(temp, 996, 10)

Acc0 == [high_risk |-> <<>>, fever |-> <<>>, data_issues |-> <<>>,
         raised |-> FALSE]

\* One iteration of the loop over the records; an exception leaves the loop.
LoopBody(acc, p) ==
    IF acc.raised \/ Skipped(p) THEN acc
    ELSE LET pid == Pid(p).s
             bp == parse_bp(p.blood_pressure)
             temp == parse_temp(p.temperature)
             age == parse_age(p.age)
         IN  IF temp = Raised \/ age = Raised
             THEN [acc EXCEPT !.raised = TRUE]
             ELSE LET total == bp_score(bp[1], bp[2]) + temp_score(temp)
                                 + age_score(age)
                  IN  [high_risk |-> IF IsHighRisk(total)
                                     THEN Append(acc.high_risk, pid)
                                     ELSE acc.high_risk,
                       fever |-> IF IsFever(temp)
                                 THEN Append(acc.fever, pid)
                                 ELSE acc.fever,
                       data_issues |-> IF IsInvalid(bp[1], bp[2], temp, age)
                                       THEN Append(acc.data_issues, pid)
                                       ELSE acc.data_issues,
                       raised |-> FALSE]

RECURSIVE Loop(_, _, _)
Loop(acc, ps, i) ==
    IF i > Len(ps) THEN acc ELSE Loop(LoopBody(acc, ps[i]), ps, i + 1)

\* set(xs)
SetOf(xs) == {xs[i] : i \in DOMAIN xs}

\* sorted(S) for a set of strings
RECURSIVE Sorted(_)
Sorted(S) ==
    IF S = {} THEN <<>>
    ELSE LET m == CHOOSE x \in S : \A y \in S : x = y \/ StrLess(x, y)
         IN  <<m>> \o Sorted(S \ {m})

\* sorted(xs): the sort without the set.
RECURSIVE SortedList(_)
SortedList(xs) ==
    IF xs = <<>> THEN <<>>
    ELSE LET i == CHOOSE j \in DOMAIN xs :
                      \A k \in DOMAIN xs : xs[j] = xs[k] \/ StrLess(xs[j], xs[k])
         IN  <<xs[i]>> \o SortedList(SubSeq(xs, 1, i - 1)
                                     \o SubSeq(xs, i + 1, Len(xs)))

\* The set without the sort: each identifier once, in order of appearance.
RECURSIVE Unique(_)
Unique(xs) ==
    IF xs = <<>> THEN <<>>
    ELSE LET r == Unique(SubSeq(xs, 1, Len(xs) - 1))
             x == xs[Len(xs)]
         IN  IF x \in SetOf(r) THEN r ELSE Append(r, x)

SortedSet(xs) == Sorted(SetOf(xs))

NoResult == [status |-> "none", high_risk_patients |-> <<>>,
             fever_patients |-> <<>>, data_quality_issues |-> <<>>]

analyze_patients(ps) ==
    LET acc == Loop(Acc0, ps, 1)
    IN  IF acc.raised
        THEN [NoResult EXCEPT !.status = "raise"]
        ELSE [status |-> "ok",
              high_risk_patients |-> SortedSet(acc.high_risk),
              fever_patients |-> SortedSet(acc.fever),
              data_quality_issues |-> SortedSet(acc.data_issues)]

(***************************************************************************)
(* The values of the variables a specification does not use.               *)
(***************************************************************************)
NoServer == [n |-> 0, lens |-> <<>>, hasNext |-> <<>>, totalPages |-> <<>>]
NoResp == [status |-> 0, data |-> <<>>, hasNext |-> "none", totalPages |-> 0]

Idle(used) ==
    /\ "raw" \in used \/ raw = RawNull
    /\ "parser" \in used \/ parser = "none"
    /\ "parsed" \in used \/ parsed = <<>>
    /\ "bpin" \in used \/ bpin = <<None, None>>
    /\ "bpout" \in used \/ bpout = 0
    /\ "patients" \in used \/ patients = <<>>
    /\ "result" \in used \/ result = NoResult
    /\ "server" \in used \/ server = NoServer
    /\ "page" \in used \/ page = 1
    /\ "resp" \in used \/ resp = NoResp
    /\ "streak" \in used \/ streak = 0
    /\ "nreq" \in used \/ nreq = 0

(***************************************************************************)
(* The parsers on every raw value: SpecParse.                              *)
(***************************************************************************)
Alphabet == {"0", "1", "9", "/", ".", "-", "F"}
Strings == UNION {[1..k -> Alphabet] : k \in 0..MaxStrLen}
RawValues ==
    {RawNull, RawBool(TRUE), RawBool(FALSE), RawInt(0), RawInt(70),
     RawInt(-3), RawBigInt, RawFloat(1012, 10), RawFloat(-15, 10),
     RawNaN, RawInf, RawNegInf, RawOther}
    \cup {RawStr(s) : s \in Strings}

InitParse ==
    /\ pc = "raw"
    /\ raw \in RawValues
    /\ Idle({"raw"})

ParseBp ==
    /\ pc = "raw"
    /\ pc' = "parsed"
    /\ parser' = "bp"
    /\ parsed' = parse_bp(raw)
    /\ UNCHANGED <<raw, bpin, bpout, patients, result, server, page, resp,
                   streak, nreq>>

ParseTemp ==
    /\ pc = "raw"
    /\ pc' = "parsed"
    /\ parser' = "temp"
    /\ parsed' = <<parse_temp(raw)>>
    /\ UNCHANGED <<raw, bpin, bpout, patients, result, server, page, resp,
                   streak, nreq>>

ParseAge ==
    /\ pc = "raw"
    /\ pc' = "parsed"
    /\ parser' = "age"
    /\ parsed' = <<parse_age(raw)>>
    /\ UNCHANGED <<raw, bpin, bpout, patients, result, server, page, resp,
                   streak, nreq>>

NextParse == ParseBp \/ ParseTemp \/ ParseAge

SpecParse == InitParse /\ [][NextParse]_vars

(***************************************************************************)
(* bp_score on every pair: SpecBP.                                         *)
(***************************************************************************)
MaxBP == 999        \* the largest value of a run of \d{1,3}
BPValues == {None} \cup {IntV(n) : n \in 0..MaxBP}

InitBP ==
    /\ pc = "bp"
    /\ bpin \in BPValues \X BPValues
    /\ Idle({"bpin"})

BpScore ==
    /\ pc = "bp"
    /\ pc' = "bp_scored"
    /\ bpout' = bp_score(bpin[1], bpin[2])
    /\ UNCHANGED <<raw, parser, parsed, bpin, patients, result, server, page,
                   resp, streak, nreq>>

NextBP == BpScore

SpecBP == InitBP /\ [][NextBP]_vars

(***************************************************************************)
(* analyze_patients on every record sequence: SpecAnalyze.                 *)
(***************************************************************************)
Record(pid, id, bp, temp, age) ==
    [patient_id |-> pid, id |-> id, blood_pressure |-> bp,
     temperature |-> temp, age |-> age]

\* <<patient_id, id>>
IdFields ==
    {<<RawStr(<<"B">>), RawStr(<<"A">>)>>,
     <<RawStr(<<>>), RawStr(<<"A">>)>>,
     <<RawNull, RawStr(<<"A", "B">>)>>,
     <<RawNull, RawStr(<<>>)>>}
BpFields ==
    {RawStr(<<"1", "1", "8", "/", "7", "6">>), RawStr(<<"1", "2", "0">>)}
TempFields ==
    {RawStr(<<"1", "0", "1", ".", "2", " ", "F">>), RawFloat(996, 10),
     RawInt(98), RawNull}
AgeFields == {RawInt(70), RawNull, RawNaN}

RecordSet ==
    {Record(i[1], i[2], b, t, a) :
        i \in IdFields, b \in BpFields, t \in TempFields, a \in AgeFields}

InitAnalyze ==
    /\ pc = "records"
    /\ \E k \in 0..MaxRecords : patients \in [1..k -> RecordSet]
    /\ Idle({"patients"})

AnalyzePatients ==
    /\ pc = "records"
    /\ pc' = "analyzed"
    /\ result' = analyze_patients(patients)
    /\ UNCHANGED <<raw, parser, parsed, bpin, bpout, patients, server, page,
                   resp, streak, nreq>>

NextAnalyze == AnalyzePatients

SpecAnalyze == InitAnalyze /\ [][NextAnalyze]_vars

(***************************************************************************)
(* analyze_patients on one record, its temperature swept in hundredths of  *)
(* a degree: SpecTemp.                                                     *)
(***************************************************************************)
TempLo == 9900
TempHi == 10200

InitTemp ==
    /\ pc = "records"
    /\ \E h \in TempLo..TempHi, a \in {RawInt(70), RawNull} :
           patients = <<Record(RawStr(<<"A">>), RawNull,
                               RawStr(<<"1", "1", "8", "/", "7", "6">>),
                               RawFloat(h, 100), a)>>
    /\ Idle({"patients"})

SpecTemp == InitTemp /\ [][NextAnalyze]_vars

(***************************************************************************)
(* fetch_patients against a server of N pages: SpecFetch.                  *)
(***************************************************************************)
TransientStatus == {429, 500, 502, 503}

\* A server holds n non-empty pages.  Page k answers with lens[k] records,
\* hasNext[k] ("true", "false", or "none" when the key is missing) and
\* totalPages[k] (0 when the key is missing).  The last page is marked.
Servers ==
    {s \in UNION {[n : {n}, lens : [1..n -> 1..MaxPageLen],
                   hasNext : [1..n -> {"true", "false", "none"}],
                   totalPages : [1..n -> {0, n}]] : n \in 1..MaxPages} :
        /\ \A k \in 1..(s.n - 1) : s.hasNext[k] # "false"
        /\ s.hasNext[s.n] = "false" \/ s.totalPages[s.n] = s.n}

\* The records of page k, each told apart from every other.
PageData(s, k) == [j \in 1..s.lens[k] |-> [pg |-> k, ix |-> j]]

\* The answer to a request for page k; beyond the last page, no data.
PageResp(s, k) ==
    IF k \in 1..s.n
    THEN [status |-> 200, data |-> PageData(s, k), hasNext |-> s.hasNext[k],
          totalPages |-> s.totalPages[k]]
    ELSE [NoResp EXCEPT !.status = 200]

InitFetch ==
    /\ pc = "fetch_get"
    /\ server \in Servers
    /\ Idle({"server"})

\* session.get(url, params = {"page": page, ...})
Get ==
    /\ pc = "fetch_get"
    /\ pc' = "fetch_wait"
    /\ nreq' = nreq + 1
    /\ UNCHANGED <<raw, parser, parsed, bpin, bpout, patients, result, server,
                   page, resp, streak>>

\* The server answers the request with a transient status.
ServerTransient ==
    /\ pc = "fetch_wait"
    /\ streak < MaxTransient
    /\ \E st \in TransientStatus : resp' = [NoResp EXCEPT !.status = st]
    /\ streak' = streak + 1
    /\ pc' = "fetch_resp"
    /\ UNCHANGED <<raw, parser, parsed, bpin, bpout, patients, result, server,
                   page, nreq>>

\* The server answers the request with the page asked for.
ServerPage ==
    /\ pc = "fetch_wait"
    /\ resp' = PageResp(server, page)
    /\ streak' = 0
    /\ pc' = "fetch_resp"
    /\ UNCHANGED <<raw, parser, parsed, bpin, bpout, patients, result, server,
                   page, nreq>>

\* A transient answer that moves on to the next page.
PageAfterTransient_skip(p) == p + 1

\* The page requested after a transient answer for page p.
PageAfterTransient(p) == p

\* Whether the loop is left after the page p with this answer is appended.
LastPage(r, p) ==
    r.hasNext = "false" \/ (r.totalPages # 0 /\ p >= r.totalPages)

\* if resp.status_code in (429, 500, 502, 503): sleep; continue
Retry ==
    /\ pc = "fetch_resp"
    /\ resp.status \in TransientStatus
    /\ page' = PageAfterTransient(page)
    /\ pc' = "fetch_get"
    /\ UNCHANGED <<raw, parser, parsed, bpin, bpout, patients, result, server,
                   resp, streak, nreq>>

\* The rest of the loop body: no data ends the loop, else the data is
\* appended and the pagination decides.
Consume ==
    /\ pc = "fetch_resp"
    /\ resp.status \notin TransientStatus
    /\ IF resp.data = <<>>
       THEN pc' = "fetched" /\ UNCHANGED <<patients, page>>
       ELSE /\ patients' = patients \o resp.data
            /\ IF LastPage(resp, page)
               THEN pc' = "fetched" /\ page' = page
               ELSE pc' = "fetch_get" /\ page' = page + 1
    /\ UNCHANGED <<raw, parser, parsed, bpin, bpout, result, server, resp,
                   streak, nreq>>

NextFetch == Get \/ ServerTransient \/ ServerPage \/ Retry \/ Consume

SpecFetch == InitFetch /\ [][NextFetch]_vars /\ WF_vars(NextFetch)

(***************************************************************************)
(* The claims.                                                             *)
(***************************************************************************)

\* C1: whatever the raw value, parse_bp, parse_temp and parse_age each
\* return a number or absent; none of them raises.
ParsersNeverRaise ==
    pc = "parsed" =>
        \A i \in DOMAIN parsed :
            parsed[i].k \in {"none", "int", "bigint", "float", "nan", "inf",
                             "ninf"}

\* The bands of the blood-pressure table, by score.
Band(b, s, d) ==
    CASE b = 1 -> s < 120 /\ d < 80
      [] b = 2 -> 120 <= s /\ s <= 129 /\ d < 80
      [] b = 3 -> (130 <= s /\ s <= 139) \/ (80 <= d /\ d <= 89)
      [] b = 4 -> s >= 140 \/ d >= 90
BandsOf(s, d) == {b \in 1..4 : Band(b, s, d)}

\* C2: bp_score returns the largest score among the bands the pair
\* satisfies, 0 when it satisfies none and 0 when a value is absent.
BpScoreIsMaxBand ==
    pc = "bp_scored" =>
        IF bpin[1] = None \/ bpin[2] = None THEN bpout = 0
        ELSE LET sat == BandsOf(bpin[1].n, bpin[2].n)
             IN  IF sat = {} THEN bpout = 0
                 ELSE bpout \in sat /\ \A b \in sat : b <= bpout

\* C2's case: a pair in two bands at once (Stage 1 and Stage 2) scored 4.
BpScoreOverlap ==
    /\ pc = "bp_scored"
    /\ bpin = <<IntV(135), IntV(95)>>
    /\ BandsOf(135, 95) = {3, 4}
    /\ bpout = 4

\* The identifier a record carries: patient_id, or id when patient_id is
\* null or empty; none when both are.
Usable(r) == r.t = "str" /\ r.s # <<>>
HasId(p) == Usable(p.patient_id) \/ Usable(p.id)
IdOf(p) == IF Usable(p.patient_id) THEN p.patient_id.s ELSE p.id.s

Systolic(p) == parse_bp(p.blood_pressure)[1]
Diastolic(p) == parse_bp(p.blood_pressure)[2]
Temp(p) == parse_temp(p.temperature)
Age(p) == parse_age(p.age)
Composite(p) ==
    bp_score(Systolic(p), Diastolic(p)) + temp_score(Temp(p))
        + age_score(Age(p))
HasFever(p) == Temp(p) # None /\ FGe(Temp(p), 996, 10)
HasAbsent(p) ==
    Systolic(p) = None \/ Diastolic(p) = None \/ Temp(p) = None
        \/ Age(p) = None

Returned == pc = "analyzed" /\ result.status = "ok"

\* C3: an identifier is in high_risk_patients exactly when a record that
\* carries it has a composite score of 4 or more.
HighRiskIffComposite ==
    Returned =>
        SetOf(result.high_risk_patients)
            = {IdOf(patients[i]) :
                   i \in {j \in DOMAIN patients :
                              HasId(patients[j]) /\ Composite(patients[j]) >= 4}}

\* C3's case: one identifier on two records, one scoring exactly 4 and one
\* scoring 3, and the identifier listed.
HighRiskBoundary ==
    /\ Returned
    /\ Len(patients) = 2
    /\ HasId(patients[1]) /\ HasId(patients[2])
    /\ IdOf(patients[2]) = IdOf(patients[1])
    /\ Composite(patients[1]) = 3
    /\ Composite(patients[2]) = 4
    /\ Temp(patients[1]) = None
    /\ result.high_risk_patients = <<IdOf(patients[1])>>

\* C4: an identifier is in fever_patients exactly when a record that carries
\* it has a temperature that is present and at least 99.6.
FeverIffPresentAndHot ==
    Returned =>
        SetOf(result.fever_patients)
            = {IdOf(patients[i]) :
                   i \in {j \in DOMAIN patients :
                              HasId(patients[j]) /\ HasFever(patients[j])}}

\* C4's case: a record at exactly 99.6 listed, a record with no temperature
\* and another identifier not listed.
FeverBoundary ==
    /\ Returned
    /\ Len(patients) = 2
    /\ HasId(patients[1]) /\ HasId(patients[2])
    /\ Temp(patients[1]) = FloatV(996, 10)
    /\ Temp(patients[2]) = None
    /\ result.fever_patients = <<IdOf(patients[1])>>
    /\ IdOf(patients[2]) # IdOf(patients[1])

\* C5: an identifier is in data_quality_issues exactly when a record that
\* carries it has a vital absent, whatever its composite score.
IssueIffAbsent ==
    Returned =>
        SetOf(result.data_quality_issues)
            = {IdOf(patients[i]) :
                   i \in {j \in DOMAIN patients :
                              HasId(patients[j]) /\ HasAbsent(patients[j])}}

\* C5's case: a record with two vitals parsed and its age absent, composite
\* below 4, flagged and not high-risk.
IssueBelowFour ==
    /\ Returned
    /\ Len(patients) = 1
    /\ HasId(patients[1])
    /\ Systolic(patients[1]) # None /\ Temp(patients[1]) # None
    /\ Age(patients[1]) = None
    /\ Composite(patients[1]) < 4
    /\ result.data_quality_issues = <<IdOf(patients[1])>>
    /\ result.high_risk_patients = <<>>

Ascending(xs) ==
    \A i, j \in DOMAIN xs : i < j => StrLess(xs[i], xs[j])

\* C6: each of the three lists is strictly ascending, so holds no
\* identifier twice.
ListsAscending ==
    Returned =>
        /\ Ascending(result.high_risk_patients)
        /\ Ascending(result.fever_patients)
        /\ Ascending(result.data_quality_issues)

\* C6's case: one identifier on two records with different vitals, both
\* feverish and both with a vital absent, listed once.
DuplicateListedOnce ==
    /\ Returned
    /\ Len(patients) = 2
    /\ HasId(patients[1]) /\ HasId(patients[2])
    /\ IdOf(patients[2]) = IdOf(patients[1])
    /\ Temp(patients[1]) # Temp(patients[2])
    /\ HasFever(patients[1]) /\ HasFever(patients[2])
    /\ HasAbsent(patients[1]) /\ HasAbsent(patients[2])
    /\ result.fever_patients = <<IdOf(patients[1])>>
    /\ result.data_quality_issues = <<IdOf(patients[1])>>

IsFieldOfSome(x) ==
    \E i \in DOMAIN patients :
        \/ patients[i].patient_id.t = "str" /\ patients[i].patient_id.s = x
        \/ patients[i].id.t = "str" /\ patients[i].id.s = x

\* C7: the outcome is that of the sequence without its identifier-less
\* records, and every listed identifier is some record's patient_id or id.
NoIdNoEffect ==
    pc = "analyzed" =>
        /\ result = analyze_patients(SelectSeq(patients, HasId))
        /\ \A x \in SetOf(result.high_risk_patients)
                      \cup SetOf(result.fever_patients)
                      \cup SetOf(result.data_quality_issues) : IsFieldOfSome(x)

\* C7's case: a record with no patient_id and an empty id that is high-risk, feverish
\* and incomplete, beside a record with an identifier and none of these.
NoIdSkipped ==
    /\ Returned
    /\ Len(patients) = 2
    /\ patients[1].patient_id = RawNull /\ patients[1].id = RawStr(<<>>)
    /\ Composite(patients[1]) >= 4 /\ HasFever(patients[1])
    /\ HasAbsent(patients[1])
    /\ HasId(patients[2])
    /\ Composite(patients[2]) < 4 /\ ~HasFever(patients[2])
    /\ ~HasAbsent(patients[2])
    /\ result.high_risk_patients = <<>>
    /\ result.fever_patients = <<>>
    /\ result.data_quality_issues = <<>>

\* The permutations of 1..n.
PermsOf == [n \in 0..MaxRecords |-> Permutations(1..n)]
Permuted(ps, f) == [i \in DOMAIN ps |-> ps[f[i]]]

\* C8: the outcome for any permutation of the records is the outcome for
\* the records.
OrderIrrelevant ==
    pc = "analyzed" =>
        \A f \in PermsOf[Len(patients)] :
            analyze_patients(Permuted(patients, f)) = result

\* C8's case: two records whose identifiers come in descending order, both
\* listed, the lists ascending.
DescendingInput ==
    /\ Returned
    /\ Len(patients) = 2
    /\ HasId(patients[1]) /\ HasId(patients[2])
    /\ StrLess(IdOf(patients[2]), IdOf(patients[1]))
    /\ result.fever_patients = <<IdOf(patients[2]), IdOf(patients[1])>>

\* C10: a record with an identifier is listed in fever_patients exactly when
\* its temperature sub-score is 1 or more.
FeverAgreesWithScore ==
    Returned =>
        \A i \in DOMAIN patients :
            HasId(patients[i]) =>
                (IdOf(patients[i]) \in SetOf(result.fever_patients)
                    <=> temp_score(Temp(patients[i])) >= 1)

RECURSIVE AllPages(_, _)
AllPages(s, k) ==
    IF k > s.n THEN <<>> ELSE PageData(s, k) \o AllPages(s, k + 1)

\* C9: fetch_patients returns, with the records of pages 1..N in page
\* order, each once; a transient answer leaves the page counter and the list
\* as they are, and the counter moves only by one, as the page's records are
\* appended.
FetchReturnsAllPages ==
    /\ <>(pc = "fetched")
    /\ [](pc = "fetched" => patients = AllPages(server, 1))
    /\ [][(pc = "fetch_resp" /\ resp.status \in TransientStatus)
              => (pc' = "fetch_get" /\ page' = page /\ patients' = patients)]_vars
    /\ [][page' # page
              => (page' = page + 1
                  /\ patients' = patients \o PageData(server, page))]_vars

\* C9's case: every page of the largest server fetched after at least one
\* transient answer.
FetchedAfterRetry ==
    /\ pc = "fetched"
    /\ server.n = MaxPages
    /\ nreq > server.n
    /\ patients = AllPages(server, 1)
    /\ Len(patients) > MaxPages

====
